---- MODULE Spec2Model ----
(***************************************************************************)
(* Human-in-the-loop e-mail workflow of                                    *)
(* src/src/email_assistant/email_assistant_tweedekamer.py.                 *)
(*                                                                         *)
(* One conversation is a sequential walk through the graph nodes           *)
(* triage_router, triage_interrupt_handler, llm_call, should_continue,     *)
(* interrupt_handler and mark_as_read_node.  The classifier, the generator *)
(* and the reviewer are the environment: their answers are chosen with \E. *)
(* A node that calls interrupt() is re-executed from its first statement   *)
(* on every resume, the i-th interrupt() of the execution returning the    *)
(* i-th resume value delivered so far.                                     *)
(***************************************************************************)
EXTENDS Integers, Sequences, FiniteSets, TLC

VARIABLES
    pc,                       \* node about to run, or "END" / "error"
    messages,                 \* state["messages"]
    classification_decision,  \* state["classification_decision"]
    email_id,                 \* state["email_input"]["id"]
    store,                    \* BaseStore: namespace -> record value
    pending,                  \* the suspension raised by interrupt(), or NoPending
    resumes,                  \* resume values delivered to the node being executed
    error,                    \* the exception that aborted the run, or "none"
    genLog,                   \* history: one entry per llm_call
    execLog,                  \* history: one entry per tool.invoke
    memLog,                   \* history: one entry per update_memory
    decisionLog,              \* history: one entry per delivered reviewer decision
    classification,           \* history: result.classification of the classifier
    classWrites,              \* history: number of writes of classification_decision
    markLog,                  \* history: one entry per mark_as_read_node
    mem,                      \* callers of get_memory / update_memory on the store
    steps                     \* graph steps taken by the run in progress

vars == <<pc, messages, classification_decision, email_id, store, pending,
          resumes, error, genLog, execLog, memLog, decisionLog,
          classification, classWrites, markLog, mem, steps>>

----------------------------------------------------------------------------
(* Bounds *)

\* llm_call is not taken any more once it has run MaxGenCalls times
MaxGenCalls == 4
\* the reviewer is not followed past MaxDecisions decisions
MaxDecisions == 3
\* a caller of the store makes at most MaxMemoryCalls calls in a row
MaxMemoryCalls == 3
\* the conversations sharing a store start at most MaxStoreCalls calls
MaxStoreCalls == 3

----------------------------------------------------------------------------
(* Names *)

Unset == "unset"
\* store.get(...) returning None
Absent == [exists |-> FALSE, base |-> "none", rev |-> 0]
\* no suspension is waiting for the reviewer
NoPending == [gate |-> "none", action |-> "", args |-> "", id |-> 0,
              config |-> [allow_ignore |-> FALSE, allow_respond |-> FALSE,
                          allow_edit |-> FALSE, allow_accept |-> FALSE]]

Labels == {"respond", "notify", "ignore"}
\* what the classifier may hand back: the three labels or anything else
ClassifierOutputs == Labels \cup {"other"}

TRIAGE == "triage_preferences"
RESPONSE == "response_preferences"
BACKGROUND == "background"
Namespaces == {TRIAGE, RESPONSE, BACKGROUND}

DecisionTypes == {"accept", "edit", "response", "ignore", "other"}

\* email ids the ingestion hands in, as <<first characters, rest>>: a Gmail
\* id and a synthetic one
EmailIds == {<<"198d7", "8298b0ec161">>, <<"test-", "1">>}

\* default_content values a caller may pass to get_memory
Defaults == {"default_one", "default_two"}
\* conversations (graph runs) that were handed the same store
Conversations == {"run_one", "run_two"}
\* a conversation that is not inside get_memory or update_memory
Idle == [at |-> "idle", namespace |-> "", default_content |-> "",
         user_preferences |-> Absent]
\* no call on the store was made yet
NoCalls == [calls |-> <<>>, started |-> 0,
            procs |-> [p \in Conversations |-> Idle]]

----------------------------------------------------------------------------
(* Tools *)

\* tools = gmail_tools + tweedekamer_tools (the registered tool set)
tools == {"send_email_tool", "Question", "Done",
          "search_kamerleden", "get_kamerstukken", "search_vergaderingen",
          "get_stemmingen", "search_commissies", "clarification_tool"}

\* mutant: the send tool is left out of the reviewed list
hitl_tools_without_send == {"Question", "clarification_tool"}

\* hitl_tools of interrupt_handler
hitl_tools == {"send_email_tool", "Question", "clarification_tool"}

\* the tool the restricted generator is bound to
FinalizeTool == "send_email_tool"

\* the names the generator is followed on when it is bound to the full set:
\* the three reviewed tools, Done and one unreviewed lookup
RequestableTools == {"send_email_tool", "Question", "Done",
                     "clarification_tool", "search_kamerleden"}

\* llm_call: "if tool_call_count >= 2"
ToolCallLimit == 2

\* the most tool calls one assistant turn carries when parallel tool calls
\* are not switched off (the restricted binding)
MaxParallelCalls == 2

----------------------------------------------------------------------------
(* Messages *)

\* A turn.  content names the fixed text of the turn, payload is the value
\* formatted into it (reviewer feedback, a tool observation); id 0 is a turn
\* without an id of its own (a dict turn gets a fresh one when it is added).
Msg(role, name, content, payload, tcid) ==
    [role |-> role, name |-> name, content |-> content, payload |-> payload,
     id |-> 0, tool_call_id |-> tcid, tool_calls |-> <<>>]

UserMsg(content, payload) == Msg("user", "", content, payload, 0)

ToolMsg(name, content, payload, tcid) == Msg("tool", name, content, payload, tcid)

AIMsg(mid, calls) ==
    [role |-> "ai", name |-> "", content |-> "", payload |-> "", id |-> mid,
     tool_call_id |-> 0, tool_calls |-> calls]

Last(s) == s[Len(s)]

\* mutant: the reducer appends every turn it is given
add_messages_append_only(left, right) == left \o right

\* the messages reducer of State: a turn whose id is already in the list
\* replaces that turn, any other turn is appended
RECURSIVE add_messages(_, _)
add_messages(left, right) ==
    IF right = <<>> THEN left
    ELSE LET m == Head(right)
             hit == {i \in 1..Len(left) : m.id # 0 /\ left[i].id = m.id}
         IN  IF hit = {}
             THEN add_messages(Append(left, m), Tail(right))
             ELSE add_messages([i \in 1..Len(left) |->
                                   IF i \in hit THEN m ELSE left[i]],
                               Tail(right))

----------------------------------------------------------------------------
(* Preference store *)

Record(base, rev) == [exists |-> TRUE, base |-> base, rev |-> rev]

\* get_memory: the value returned
get_memory_value(st, namespace, default_content) ==
    IF st[namespace].exists THEN st[namespace] ELSE Record(default_content, 0)

\* mutant: get_memory returns the default without putting it in the store
get_memory_store_without_put(st, namespace, default_content) == st

\* mutant: the default is put whether or not a record exists
get_memory_store_overwrites(st, namespace, default_content) ==
    [st EXCEPT ![namespace] = Record(default_content, 0)]

\* get_memory: the store afterwards
get_memory_store(st, namespace, default_content) ==
    IF st[namespace].exists THEN st
    ELSE [st EXCEPT ![namespace] = Record(default_content, 0)]

\* update_memory reads user_preferences.value: fails on a missing record
update_memory_ok(st, namespace) == st[namespace].exists

\* mutant: the revised profile is written from the seeded text, not from the
\* profile that was read
update_memory_from_seed(st, namespace) ==
    [st EXCEPT ![namespace] = Record(st[namespace].base, 1)]

\* update_memory: the store afterwards (the revised profile is a new revision
\* of the one read)
update_memory(st, namespace) ==
    [st EXCEPT ![namespace] = Record(st[namespace].base, st[namespace].rev + 1)]

----------------------------------------------------------------------------
(* Initial state: a new item enters with an empty conversation *)

Init ==
    /\ pc = "triage_router"
    /\ messages = <<>>
    /\ classification_decision = Unset
    /\ email_id \in EmailIds
    /\ store = [n \in Namespaces |-> Absent]
    /\ mem = NoCalls
    /\ pending = NoPending
    /\ resumes = <<>>
    /\ error = "none"
    /\ genLog = <<>>
    /\ execLog = <<>>
    /\ memLog = <<>>
    /\ decisionLog = <<>>
    /\ classification = "none"
    /\ classWrites = 0
    /\ markLog = <<>>
    /\ steps = 0

hist == <<genLog, execLog, memLog, decisionLog, markLog>>

\* a node raised: the run aborts and the node's update is not applied
Abort(kind) ==
    /\ pc' = "error"
    /\ error' = kind

----------------------------------------------------------------------------
(* The recursion limit of a run *)

\* the ingestion scripts: the one that creates runs on the server, and the
\* synchronous processor that invokes the workflow in its own process
Ingestions == {"run_ingest_simple", "simple_sync_processor"}

\* the script that started the conversation in progress
ingested_by ==
    IF mem.calls # <<>> /\ Last(mem.calls).op \in Ingestions
    THEN Last(mem.calls).op
    ELSE "run_ingest_simple"

\* config["recursion_limit"] of the run the synchronous processor makes
recursion_limit_simple_sync == 5

\* config["recursion_limit"] of runs.create in the ingestion and in the test
recursion_limit_run_ingest == 10

\* the recursion limit of the run in progress
recursion_limit ==
    IF ingested_by = "simple_sync_processor"
    THEN recursion_limit_simple_sync
    ELSE recursion_limit_run_ingest

\* the graph steps one execution of a node takes: response_agent is a node of
\* overall_workflow, entered with the first llm_call.  The steps of
\* overall_workflow and of response_agent are counted against one limit, which
\* is no more than the runtime allows either graph.
node_steps(node) ==
    IF node = "llm_call" /\ genLog = <<>> THEN 2 ELSE 1

\* the run has no step left for the node that is due
out_of_steps(node) == steps + node_steps(node) > recursion_limit

\* the runtime ends the run instead of executing the node
GraphRecursionError ==
    /\ Abort("GraphRecursionError")
    /\ UNCHANGED <<messages, classification_decision, email_id, store,
                   pending, resumes, hist, classification, classWrites, mem,
                   steps>>

\* a resumed run counts its steps anew; a run resumed at the dispatch gate
\* passes through response_agent again
resumed_steps(node) == IF node = "interrupt_handler" THEN 1 ELSE 0

----------------------------------------------------------------------------
(* triage_router *)

\* mutant: the else branch ends the run quietly and records the label
triage_command_lenient(label) ==
    [raise |-> FALSE,
     goto |-> IF label = "respond" THEN "llm_call"
              ELSE IF label = "notify" THEN "triage_interrupt_handler"
              ELSE "END",
     classification_decision |-> label,
     messages |-> IF label = "respond"
                  THEN <<UserMsg("Respond to the email", "")>> ELSE <<>>]

\* mutant: an unknown label is handled like notify
triage_command_default_notify(label) ==
    IF label \in {"respond", "ignore"}
    THEN triage_command_lenient(label)
    ELSE [raise |-> FALSE, goto |-> "triage_interrupt_handler",
          classification_decision |-> "notify", messages |-> <<>>]

\* mutant: notify carries the reply instruction as respond does
triage_command_notify_with_turn(label) ==
    IF label \in {"respond", "notify"}
    THEN [raise |-> FALSE,
          goto |-> IF label = "respond" THEN "llm_call"
                   ELSE "triage_interrupt_handler",
          classification_decision |-> label,
          messages |-> <<UserMsg("Respond to the email", "")>>]
    ELSE [raise |-> label # "ignore",
          goto |-> IF label = "ignore" THEN "END" ELSE "error",
          classification_decision |-> IF label = "ignore" THEN label ELSE Unset,
          messages |-> <<>>]

\* the Command triage_router returns for a classification, or the raise of
\* its else branch
triage_command(label) ==
    CASE label = "respond" ->
             [raise |-> FALSE, goto |-> "llm_call",
              classification_decision |-> label,
              messages |-> <<UserMsg("Respond to the email", "")>>]
      [] label = "ignore" ->
             [raise |-> FALSE, goto |-> "END",
              classification_decision |-> label,
              messages |-> <<>>]
      [] label = "notify" ->
             [raise |-> FALSE, goto |-> "triage_interrupt_handler",
              classification_decision |-> label,
              messages |-> <<>>]
      [] OTHER ->
             [raise |-> TRUE, goto |-> "error",
              classification_decision |-> Unset,
              messages |-> <<>>]

triage_router(result) ==
    /\ pc = "triage_router"
    /\ IF out_of_steps("triage_router")
       THEN GraphRecursionError
       ELSE
       /\ steps' = steps + node_steps("triage_router")
       /\ classification' = result
       /\ store' = get_memory_store(store, TRIAGE, "triage_instructions")
       /\ LET cmd == triage_command(result) IN
          IF cmd.raise
          THEN /\ Abort("ValueError: Invalid classification")
               /\ UNCHANGED <<classification_decision, classWrites, messages>>
          ELSE /\ pc' = cmd.goto
               /\ classification_decision' = cmd.classification_decision
               /\ classWrites' = classWrites + 1
               /\ messages' = add_messages(messages, cmd.messages)
               /\ UNCHANGED error
       /\ UNCHANGED <<email_id, mem, pending, resumes, hist>>

----------------------------------------------------------------------------
(* The reviewer: one resume value per suspension *)

\* the value the Agent Inbox hands to interrupt(): its type and its args
Decision(type) ==
    [type |-> type,
     args |-> CASE type = "edit" -> "edited"
                [] type = "response" -> "feedback"
                [] OTHER -> "",
     gate |-> pending.gate,
     forId |-> pending.id]

\* mutant: the suspension stays open after a decision and takes another one
Resume_keeps_pending(type) ==
    /\ pending # NoPending
    /\ Len(decisionLog) < MaxDecisions
    /\ pc \in {"triage_interrupt_handler", "interrupt_handler"}
    /\ resumes' = Append(resumes, Decision(type))
    /\ decisionLog' = Append(decisionLog, Decision(type))
    /\ steps' = resumed_steps(pc)
    /\ UNCHANGED <<pc, messages, classification_decision, email_id, mem, store,
                   error, genLog, execLog, memLog, classification,
                   classWrites, markLog, pending>>

\* Command(resume=...): the value is handed to the interrupt() that suspended
Resume(type) ==
    /\ pending # NoPending
    /\ Len(decisionLog) < MaxDecisions
    /\ pc \in {"triage_interrupt_handler", "interrupt_handler"}
    /\ resumes' = Append(resumes, Decision(type))
    /\ decisionLog' = Append(decisionLog, Decision(type))
    /\ pending' = NoPending
    /\ steps' = resumed_steps(pc)
    /\ UNCHANGED <<pc, messages, classification_decision, email_id, mem, store,
                   error, genLog, execLog, memLog, classification,
                   classWrites, markLog>>

----------------------------------------------------------------------------
(* triage_interrupt_handler *)

\* the interrupt request of the triage gate
triage_request ==
    [gate |-> "triage",
     action |-> "Tweede Kamer Assistant",
     args |-> "",
     id |-> 0,
     config |-> [allow_ignore |-> TRUE, allow_respond |-> TRUE,
                 allow_edit |-> FALSE, allow_accept |-> FALSE]]

\* mutant: the gate also takes accept, as a reviewer's agreement to drop
triage_resumable_with_accept == {"response", "ignore", "accept"}

\* the decision types the triage gate resumes on
triage_resumable == {"response", "ignore"}

\* mutant: the gate hands every resumed item to the loop
triage_gate_goto_always_loop(type) == "llm_call"

\* goto of the triage gate
triage_gate_goto(type) ==
    IF type = "response" THEN "llm_call" ELSE "END"

\* mutant: the feedback turn is left out of the update
triage_gate_messages_without_feedback(response) ==
    <<UserMsg("Email to notify user about", "")>>

\* the turns the triage gate adds
triage_gate_messages(response) ==
    IF response.type = "response"
    THEN <<UserMsg("Email to notify user about", ""),
           UserMsg("User wants to reply to the email. Use this feedback",
                   response.args)>>
    ELSE <<UserMsg("Email to notify user about", ""),
           UserMsg("The user decided to ignore the email", "")>>

triage_interrupt_handler ==
    /\ pc = "triage_interrupt_handler"
    /\ pending = NoPending
    /\ IF out_of_steps("triage_interrupt_handler")
       THEN GraphRecursionError
       ELSE
       /\ steps' = steps + node_steps("triage_interrupt_handler")
       /\ IF resumes = <<>>
          THEN \* interrupt([request]) suspends the run
               /\ pending' = triage_request
               /\ UNCHANGED <<pc, messages, store, resumes, error, memLog>>
          ELSE LET response == resumes[1] IN
               IF response.type \in triage_resumable
               THEN IF update_memory_ok(store, TRIAGE)
                    THEN /\ store' = update_memory(store, TRIAGE)
                         /\ memLog' = Append(memLog, TRIAGE)
                         /\ messages' = add_messages(messages,
                                            triage_gate_messages(response))
                         /\ pc' = triage_gate_goto(response.type)
                         /\ resumes' = <<>>
                         /\ UNCHANGED <<pending, error>>
                    ELSE /\ Abort("AttributeError: no record")
                         /\ UNCHANGED <<messages, store, resumes, pending, memLog>>
               ELSE /\ Abort("ValueError: Invalid response")
                    /\ UNCHANGED <<messages, store, resumes, pending, memLog>>
       /\ UNCHANGED <<classification_decision, email_id, mem, genLog, execLog,
                      decisionLog, classification, classWrites, markLog>>


----------------------------------------------------------------------------
(* llm_call *)

RECURSIVE SumCalls(_)
SumCalls(msgs) ==
    IF msgs = <<>> THEN 0
    ELSE Len(Head(msgs).tool_calls) + SumCalls(Tail(msgs))

\* the circuit breaker's count: the tool calls recorded in messages
tool_call_count(msgs) == SumCalls(msgs)

\* mutant: the comparison is strict
breaker_engaged_strict(count) == count > ToolCallLimit

\* "if tool_call_count >= 2"
breaker_engaged(count) == count >= ToolCallLimit

\* mutant: the generator keeps the full tool set whatever the count
bound_tools_never_restricted(count) == tools

\* the tools the generator is bound to
bound_tools(count) ==
    IF breaker_engaged(count) THEN {FinalizeTool} ELSE tools

\* parallel_tool_calls=False is passed with the full set only
max_calls_per_turn(count) ==
    IF breaker_engaged(count) THEN MaxParallelCalls ELSE 1

\* the correlation id of the j-th request of the n-th generator turn
CallId(n, j) == (n - 1) * MaxParallelCalls + j

ToolCall(name, args, id) == [name |-> name, args |-> args, id |-> id]

\* what the generator may answer: plain text, or requests for bound tools
GeneratorTurns(n, count) ==
    {<<>>} \cup
    UNION { { [j \in 1..len |-> ToolCall(f[j], "draft", CallId(n, j))] :
              f \in [1..len -> bound_tools(count) \cap RequestableTools] } :
            len \in 1..max_calls_per_turn(count) }

llm_call(calls) ==
    /\ pc = "llm_call"
    /\ Len(genLog) < MaxGenCalls
    /\ IF out_of_steps("llm_call")
       THEN GraphRecursionError
       ELSE
       /\ steps' = steps + node_steps("llm_call")
       /\ LET n == Len(genLog) + 1
              count == tool_call_count(messages)
          IN  /\ genLog' = Append(genLog, [count |-> count,
                                           bound |-> bound_tools(count),
                                           seen |-> Len(messages),
                                           calls |-> calls])
              /\ messages' = add_messages(messages, <<AIMsg(n, calls)>>)
       /\ store' = get_memory_store(
                       get_memory_store(store, RESPONSE, "response_preferences"),
                       BACKGROUND, "background")
       /\ pc' = "should_continue"
       /\ UNCHANGED <<classification_decision, email_id, mem, pending, resumes, error,
                      execLog, memLog, decisionLog, classification, classWrites,
                      markLog>>

----------------------------------------------------------------------------
(* should_continue: the conditional edge after llm_call *)

\* mutant: the edge ends the loop on the send tool, not on Done
should_continue_on_finalize(msgs) ==
    IF Last(msgs).tool_calls # <<>>
          /\ Last(msgs).tool_calls[1].name # FinalizeTool
    THEN "interrupt_handler"
    ELSE "mark_as_read_node"

should_continue(msgs) ==
    LET last_message == Last(msgs) IN
    IF last_message.tool_calls # <<>>
    THEN \* the loop returns on its first iteration
         IF last_message.tool_calls[1].name = "Done"
         THEN "mark_as_read_node"
         ELSE "interrupt_handler"
    ELSE "mark_as_read_node"

Route ==
    /\ pc = "should_continue"
    /\ pc' = should_continue(messages)
    /\ UNCHANGED <<messages, classification_decision, email_id, mem, store, pending,
                   resumes, error, hist, classification, classWrites, steps>>


----------------------------------------------------------------------------
(* interrupt_handler *)

\* the capability matrix of the suspension raised for a reviewed tool
hitl_config(name) ==
    CASE name = "send_email_tool" ->
             [allow_ignore |-> TRUE, allow_respond |-> TRUE,
              allow_edit |-> TRUE, allow_accept |-> TRUE]
      [] name = "Question" ->
             [allow_ignore |-> TRUE, allow_respond |-> TRUE,
              allow_edit |-> FALSE, allow_accept |-> FALSE]
      [] name = "clarification_tool" ->
             [allow_ignore |-> TRUE, allow_respond |-> TRUE,
              allow_edit |-> TRUE, allow_accept |-> TRUE]

hitl_request(tool_call) ==
    [gate |-> "dispatch",
     action |-> tool_call.name,
     args |-> tool_call.args,
     id |-> tool_call.id,
     config |-> hitl_config(tool_call.name)]

\* one tool.invoke: what ran, with which arguments, and on which decision
\* ("auto" and forId 0 when no reviewer was asked)
Exec(tool_call, args, cause, forId) ==
    [name |-> tool_call.name, id |-> tool_call.id, args |-> args,
     cause |-> cause, forId |-> forId, outcome |-> "observation"]

\* what one tool.invoke may do: return its result, return the text of a
\* request error the tool caught itself, or raise
ToolOutcomes == {"observation", "error_text", "raised"}

\* the tools that call the OData API inside try / except RequestException
ApiTools == {"search_kamerleden", "get_kamerstukken", "search_vergaderingen",
             "get_stemmingen", "search_commissies"}

\* every tool.invoke of the turn returns its result
NoFaults == [j \in 1..MaxParallelCalls |-> "observation"]

\* the content of the tool message for an outcome that returned
observation(name, outcome) ==
    IF outcome = "error_text" /\ name \in ApiTools
    THEN "Fout bij ophalen"
    ELSE "observation"

\* the accumulated effect of one execution of the node body
IHStart(st) ==
    [status |-> "run", result |-> <<>>, goto |-> "llm_call", st |-> st,
     execs |-> <<>>, mems |-> <<>>, used |-> 0, req |-> NoPending,
     err |-> "none", at |-> 1, outcomes |-> NoFaults]

IHRaise(acc, kind) == [acc EXCEPT !.status = "error", !.err = kind]

\* update_memory inside the node body
IHUpdateMemory(acc, namespace) ==
    IF update_memory_ok(acc.st, namespace)
    THEN [acc EXCEPT !.st = update_memory(acc.st, namespace),
                     !.mems = Append(acc.mems, namespace)]
    ELSE IHRaise(acc, "AttributeError: no record")

\* "observation = tool.invoke(args)" followed by the result.append of the
\* tool message; an exception of tool.invoke is not caught in the node
invoke(acc, tool_call, args, cause, forId) ==
    LET outcome == acc.outcomes[acc.at]
        a1 == [acc EXCEPT
                 !.execs = Append(acc.execs,
                                  [Exec(tool_call, args, cause, forId)
                                     EXCEPT !.outcome = outcome])]
    IN  IF outcome = "raised"
        THEN IHRaise(a1, "ToolException")
        ELSE [a1 EXCEPT
                !.result = Append(a1.result,
                                  ToolMsg(tool_call.name,
                                          observation(tool_call.name, outcome),
                                          args, tool_call.id))]

\* mutant: a tool name missing from tools_by_name is passed over
IHAuto_skips_unknown(acc, tool_call) ==
    IF tool_call.name \notin tools
    THEN acc
    ELSE invoke(acc, tool_call, tool_call.args, "auto", 0)

\* mutant: the observation of an unreviewed tool is not added to result
IHAuto_without_result(acc, tool_call) ==
    [acc EXCEPT
       !.execs = Append(acc.execs, Exec(tool_call, tool_call.args, "auto", 0))]

\* the tool is not in hitl_tools: it is executed without interruption
IHAuto(acc, tool_call) ==
    IF tool_call.name \notin tools
    THEN IHRaise(acc, "KeyError")
    ELSE invoke(acc, tool_call, tool_call.args, "auto", 0)

\* mutant: an accepted request ends the loop at the terminal node
IHAccept_to_terminal(acc, tool_call, response) ==
    [invoke(acc, tool_call, tool_call.args, "accept", response.forId)
       EXCEPT !.goto = "mark_as_read_node"]

\* response["type"] == "accept"
IHAccept(acc, tool_call, response) ==
    invoke(acc, tool_call, tool_call.args, "accept", response.forId)

\* mutant: the edited request is taken out of the copied turn
updated_tool_calls_drops_request(ai_message, tool_call, edited_args) ==
    SelectSeq(ai_message.tool_calls, LAMBDA tc : tc.id # tool_call.id)

\* mutant: the edited request is rebuilt without the id of the original
updated_tool_calls_fresh_id(ai_message, tool_call, edited_args) ==
    SelectSeq(ai_message.tool_calls, LAMBDA tc : tc.id # tool_call.id)
    \o <<ToolCall(tool_call.name, edited_args, 0)>>

\* the edited request goes to the end of the copied turn's tool_calls
updated_tool_calls(ai_message, tool_call, edited_args) ==
    SelectSeq(ai_message.tool_calls, LAMBDA tc : tc.id # tool_call.id)
    \o <<ToolCall(tool_call.name, edited_args, tool_call.id)>>

\* mutant: an edit of a tool other than send_email_tool only rewrites the turn
IHEdit_tolerant(acc, tool_call, response, ai_message) ==
    LET edited_args == response.args
        copy == [ai_message EXCEPT
                   !.tool_calls = updated_tool_calls(ai_message, tool_call,
                                                     edited_args)]
        a1 == [acc EXCEPT !.result = Append(acc.result, copy)]
    IN  IF tool_call.name = "send_email_tool"
        THEN IHUpdateMemory(
                 [a1 EXCEPT
                    !.execs = Append(a1.execs,
                                     Exec(tool_call, edited_args, "edit",
                                          response.forId)),
                    !.result = Append(a1.result,
                                      ToolMsg(tool_call.name, "observation",
                                              edited_args, tool_call.id))],
                 RESPONSE)
        ELSE a1

\* response["type"] == "edit"
IHEdit(acc, tool_call, response, ai_message) ==
    LET edited_args == response.args
        copy == [ai_message EXCEPT
                   !.tool_calls = updated_tool_calls(ai_message, tool_call,
                                                     edited_args)]
        a1 == [acc EXCEPT !.result = Append(acc.result, copy)]
        a2 == invoke(a1, tool_call, edited_args, "edit", response.forId)
    IN  IF tool_call.name = "send_email_tool"
        THEN IF a2.status = "error" THEN a2 ELSE IHUpdateMemory(a2, RESPONSE)
        ELSE IHRaise(a1, "ValueError: Invalid tool call")

\* mutant: every ignore is taken as a triage signal, clarification included
IHIgnore_always_learns(acc, tool_call) ==
    IHUpdateMemory([acc EXCEPT
                      !.result = Append(acc.result,
                                        ToolMsg(tool_call.name, "User ignored",
                                                "", tool_call.id)),
                      !.goto = "END"],
                   TRIAGE)

\* mutant: a declined request ends the loop at the terminal node
IHIgnore_to_terminal(acc, tool_call) ==
    LET a1 == [acc EXCEPT
                 !.result = Append(acc.result,
                                   ToolMsg(tool_call.name, "User ignored", "",
                                           tool_call.id)),
                 !.goto = "mark_as_read_node"]
    IN  IF tool_call.name \in {"send_email_tool", "Question"}
        THEN IHUpdateMemory(a1, TRIAGE)
        ELSE a1

\* response["type"] == "ignore"
IHIgnore(acc, tool_call) ==
    LET a1 == [acc EXCEPT
                 !.result = Append(acc.result,
                                   ToolMsg(tool_call.name, "User ignored", "",
                                           tool_call.id)),
                 !.goto = "END"]
    IN  IF tool_call.name \in {"send_email_tool", "Question"}
        THEN IHUpdateMemory(a1, TRIAGE)
        ELSE a1

\* response["type"] == "response"
IHResponse(acc, tool_call, response) ==
    LET a1 == [acc EXCEPT
                 !.result = Append(acc.result,
                                   ToolMsg(tool_call.name, "User feedback",
                                           response.args, tool_call.id))]
    IN  CASE tool_call.name = "send_email_tool" -> IHUpdateMemory(a1, RESPONSE)
          [] tool_call.name = "Question" -> a1
          [] tool_call.name = "clarification_tool" ->
                 [a1 EXCEPT
                    !.result = Append(a1.result,
                                      UserMsg("Aanvullende informatie ontvangen",
                                              response.args))]

\* the if/elif chain over response["type"]; it has no else branch
IHDecide(acc, tool_call, response, ai_message) ==
    CASE response.type = "accept" -> IHAccept(acc, tool_call, response)
      [] response.type = "edit" -> IHEdit(acc, tool_call, response, ai_message)
      [] response.type = "ignore" -> IHIgnore(acc, tool_call)
      [] response.type = "response" -> IHResponse(acc, tool_call, response)
      [] OTHER -> acc

\* one iteration of "for tool_call in state['messages'][-1].tool_calls"
IHStep(acc, tool_call, given, ai_message) ==
    IF tool_call.name \notin hitl_tools
    THEN IHAuto(acc, tool_call)
    ELSE IF acc.used < Len(given)
         THEN \* interrupt() returns the resume value delivered for it
              IHDecide([acc EXCEPT !.used = acc.used + 1], tool_call,
                       given[acc.used + 1], ai_message)
         ELSE \* interrupt() suspends the run here
              [acc EXCEPT !.status = "suspended",
                          !.req = hitl_request(tool_call)]

RECURSIVE IHLoop(_, _, _, _, _)
IHLoop(acc, calls, i, given, ai_message) ==
    IF acc.status # "run" \/ i > Len(calls)
    THEN acc
    ELSE IHLoop(IHStep([acc EXCEPT !.at = i], calls[i], given, ai_message),
                calls, i + 1, given, ai_message)

\* one execution of the node, from its first statement, with the resume
\* values delivered so far; outcomes[j] is what the tool.invoke of the j-th
\* request does in this execution
interrupt_handler(outcomes) ==
    /\ pc = "interrupt_handler"
    /\ pending = NoPending
    /\ IF out_of_steps("interrupt_handler")
       THEN GraphRecursionError
       ELSE
       /\ steps' = steps + node_steps("interrupt_handler")
       /\ LET ai_message == Last(messages)
              out == IHLoop([IHStart(store) EXCEPT !.outcomes = outcomes],
                            ai_message.tool_calls, 1, resumes, ai_message)
          IN  /\ store' = out.st
              /\ execLog' = execLog \o out.execs
              /\ memLog' = memLog \o out.mems
              /\ CASE out.status = "suspended" ->
                          /\ pending' = out.req
                          /\ UNCHANGED <<pc, messages, resumes, error>>
                   [] out.status = "error" ->
                          /\ Abort(out.err)
                          /\ UNCHANGED <<messages, resumes, pending>>
                   [] out.status = "run" ->
                          /\ messages' = add_messages(messages, out.result)
                          /\ pc' = out.goto
                          /\ resumes' = <<>>
                          /\ UNCHANGED <<pending, error>>
       /\ UNCHANGED <<classification_decision, email_id, mem, genLog, decisionLog,
                      classification, classWrites, markLog>>

----------------------------------------------------------------------------
(* mark_as_read_node *)

\* mutant: only the prefix of the repository's own test ids is skipped
SyntheticPrefixes_test_only == {"test-"}

\* the prefixes of test and mock ids
SyntheticPrefixes == {"test-", "langsmith-", "mock-", "debug-"}

\* "email_id and not email_id.startswith((...))"
is_real_gmail_id(id) == id # <<>> /\ id[1] \notin SyntheticPrefixes

\* what the call of mark_as_read(email_id) may do (gmail_tools, a network call)
MarkOutcomes == {"done", "raised"}

\* what mark_as_read_node does with the id: nothing, or the call
mark_attempts(id) == IF is_real_gmail_id(id) THEN MarkOutcomes ELSE {"skipped"}

\* mutant: the exception of mark_as_read is not caught
after_mark_as_read_uncaught(outcome) ==
    IF outcome = "raised" THEN "error" ELSE "END"

\* "except Exception as e: print(...)": the node returns either way and the
\* edge mark_as_read_node -> END is taken
after_mark_as_read(outcome) == "END"

mark_as_read_node(outcome) ==
    /\ pc = "mark_as_read_node"
    /\ outcome \in mark_attempts(email_id)
    /\ IF out_of_steps("mark_as_read_node")
       THEN GraphRecursionError
       ELSE
       /\ steps' = steps + node_steps("mark_as_read_node")
       /\ markLog' = Append(markLog, [id |-> email_id,
                                      marked |-> is_real_gmail_id(email_id),
                                      outcome |-> outcome])
       /\ pc' = after_mark_as_read(outcome)
       /\ UNCHANGED <<messages, classification_decision, email_id, mem, store, pending,
                      resumes, error, genLog, execLog, memLog, decisionLog,
                      classification, classWrites>>

----------------------------------------------------------------------------
(* The workflow *)

Next ==
    \/ \E c \in ClassifierOutputs : triage_router(c)
    \/ triage_interrupt_handler
    \/ \E t \in DecisionTypes : Resume(t)
    \/ \E calls \in GeneratorTurns(Len(genLog) + 1, tool_call_count(messages)) :
           llm_call(calls)
    \/ Route
    \/ interrupt_handler(NoFaults)
    \/ \E outcome \in MarkOutcomes \cup {"skipped"} : mark_as_read_node(outcome)

Spec == Init /\ [][Next]_vars

\* The same workflow with a reviewer who only gives decisions that the
\* capability matrix of the suspension allows.
DecisionAllowed(config, type) ==
    CASE type = "accept" -> config.allow_accept
      [] type = "edit" -> config.allow_edit
      [] type = "response" -> config.allow_respond
      [] type = "ignore" -> config.allow_ignore
      [] OTHER -> FALSE

ResumeAllowed(type) ==
    /\ DecisionAllowed(pending.config, type)
    /\ Resume(type)

NextAllowed ==
    \/ \E c \in ClassifierOutputs : triage_router(c)
    \/ triage_interrupt_handler
    \/ \E t \in DecisionTypes : ResumeAllowed(t)
    \/ \E calls \in GeneratorTurns(Len(genLog) + 1, tool_call_count(messages)) :
           llm_call(calls)
    \/ Route
    \/ interrupt_handler(NoFaults)
    \/ \E outcome \in MarkOutcomes \cup {"skipped"} : mark_as_read_node(outcome)

SpecAllowed == Init /\ [][NextAllowed]_vars

\* Items of every kind of id that go straight to the terminal node: the
\* classifier says respond and the generator answers in plain text or with
\* Done.
TerminalEmailIds ==
    {<<>>} \cup
    ({"test-", "langsmith-", "mock-", "debug-", "198d7", "Test-", "test",
      "mock"} \X {"1", "8298b0ec161"})

InitTerminal ==
    /\ pc = "triage_router"
    /\ messages = <<>>
    /\ classification_decision = Unset
    /\ email_id \in TerminalEmailIds
    /\ store = [n \in Namespaces |-> Absent]
    /\ mem = NoCalls
    /\ pending = NoPending
    /\ resumes = <<>>
    /\ error = "none"
    /\ genLog = <<>>
    /\ execLog = <<>>
    /\ memLog = <<>>
    /\ decisionLog = <<>>
    /\ classification = "none"
    /\ classWrites = 0
    /\ markLog = <<>>
    /\ steps = 0

\* the generator turns that end the loop
TerminalTurns(n, count) ==
    {calls \in GeneratorTurns(n, count) :
        \A j \in 1..Len(calls) : calls[j].name = "Done"}

NextTerminal ==
    \/ triage_router("respond")
    \/ \E calls \in TerminalTurns(Len(genLog) + 1, tool_call_count(messages)) :
           llm_call(calls)
    \/ Route
    \/ \E outcome \in MarkOutcomes \cup {"skipped"} : mark_as_read_node(outcome)

SpecTerminal == InitTerminal /\ [][NextTerminal]_vars

\* The workflow with a generator that may name a tool that is not registered;
\* the reviewer gives allowed decisions.
UnregisteredTools == {"unknown_tool"}

\* the names the generator may put in a request
RequestedNames(count) ==
    (bound_tools(count) \cap RequestableTools) \cup UnregisteredTools

UnregisteredTurns(n, count) ==
    {<<>>} \cup
    UNION { { [j \in 1..len |-> ToolCall(f[j], "draft", CallId(n, j))] :
              f \in [1..len -> RequestedNames(count)] } :
            len \in 1..max_calls_per_turn(count) }

NextUnregistered ==
    \/ \E c \in ClassifierOutputs : triage_router(c)
    \/ triage_interrupt_handler
    \/ \E t \in DecisionTypes : ResumeAllowed(t)
    \/ \E calls \in UnregisteredTurns(Len(genLog) + 1,
                                      tool_call_count(messages)) :
           llm_call(calls)
    \/ Route
    \/ interrupt_handler(NoFaults)
    \/ \E outcome \in MarkOutcomes \cup {"skipped"} : mark_as_read_node(outcome)

SpecUnregistered == Init /\ [][NextUnregistered]_vars

\* The workflow with tools that may fail: a tool.invoke may return an error
\* text or raise; the reviewer gives allowed decisions.
NextFaults ==
    \/ \E c \in ClassifierOutputs : triage_router(c)
    \/ triage_interrupt_handler
    \/ \E t \in DecisionTypes : ResumeAllowed(t)
    \/ \E calls \in GeneratorTurns(Len(genLog) + 1, tool_call_count(messages)) :
           llm_call(calls)
    \/ Route
    \/ \E outcomes \in [1..MaxParallelCalls -> ToolOutcomes] :
           interrupt_handler(outcomes)
    \/ \E outcome \in MarkOutcomes \cup {"skipped"} : mark_as_read_node(outcome)

SpecFaults == Init /\ [][NextFaults]_vars


\* One ingestion process handling one item after another.
MaxItems == 2

\* the store the workflow of the next item is given: the synchronous
\* processor makes "store = InMemoryStore()" for every email, the server
\* keeps its own
store_for_next_item(ingest) ==
    IF ingest = "simple_sync_processor"
    THEN [n \in Namespaces |-> Absent]
    ELSE store

\* the record of one item handed to the workflow: the store the item before
\* left and the store this item is given
Ingested(ingest, before, after) ==
    [op |-> ingest, namespace |-> "", default_content |-> "",
     raised |-> FALSE, ret |-> Absent, before |-> before, after |-> after]

\* the first item of an ingestion process
InitIngest ==
    /\ pc = "triage_router"
    /\ messages = <<>>
    /\ classification_decision = Unset
    /\ email_id \in EmailIds
    /\ store = [n \in Namespaces |-> Absent]
    /\ \E ingest \in Ingestions :
           mem = [NoCalls EXCEPT !.calls = <<Ingested(ingest, store, store)>>]
    /\ pending = NoPending
    /\ resumes = <<>>
    /\ error = "none"
    /\ genLog = <<>>
    /\ execLog = <<>>
    /\ memLog = <<>>
    /\ decisionLog = <<>>
    /\ classification = "none"
    /\ classWrites = 0
    /\ markLog = <<>>
    /\ steps = 0

\* process_single_email: the run of the item before has ended, failed or
\* been left suspended; a new conversation starts on the next item
process_single_email(ingest, id) ==
    /\ \/ pc \in {"END", "error"}
       \/ pending # NoPending
    /\ Len(mem.calls) < MaxItems
    /\ ingest = ingested_by
    /\ store' = store_for_next_item(ingest)
    /\ mem' = [mem EXCEPT !.calls = Append(@, Ingested(ingest, store, store'))]
    /\ pc' = "triage_router"
    /\ messages' = <<>>
    /\ classification_decision' = Unset
    /\ email_id' = id
    /\ pending' = NoPending
    /\ resumes' = <<>>
    /\ error' = "none"
    /\ genLog' = <<>>
    /\ execLog' = <<>>
    /\ memLog' = <<>>
    /\ decisionLog' = <<>>
    /\ markLog' = <<>>
    /\ classification' = "none"
    /\ classWrites' = 0
    /\ steps' = 0

\* a run can be resumed where a checkpointer keeps it: on the server
ResumeOnServer(type) ==
    /\ ingested_by = "run_ingest_simple"
    /\ ResumeAllowed(type)

NextIngest ==
    \/ \E c \in ClassifierOutputs : triage_router(c)
    \/ triage_interrupt_handler
    \/ \E t \in DecisionTypes : ResumeOnServer(t)
    \/ \E calls \in GeneratorTurns(Len(genLog) + 1, tool_call_count(messages)) :
           llm_call(calls)
    \/ Route
    \/ interrupt_handler(NoFaults)
    \/ \E outcome \in MarkOutcomes \cup {"skipped"} : mark_as_read_node(outcome)
    \/ \E ingest \in Ingestions : \E id \in EmailIds :
           process_single_email(ingest, id)

SpecIngest == InitIngest /\ [][NextIngest]_vars

----------------------------------------------------------------------------
(* get_memory and update_memory called directly on a store *)

\* the variables of the workflow that a call on the store leaves alone
workflow == <<pc, messages, classification_decision, email_id, pending,
              resumes, error, hist, classification, classWrites, steps>>

\* one call of get_memory(store, namespace, default_content)
call_get_memory(namespace, default_content) ==
    /\ Len(mem.calls) < MaxMemoryCalls
    /\ store' = get_memory_store(store, namespace, default_content)
    /\ mem' = [mem EXCEPT !.calls =
                 Append(@, [op |-> "get_memory", namespace |-> namespace,
                            default_content |-> default_content,
                            raised |-> FALSE,
                            ret |-> get_memory_value(store, namespace,
                                                     default_content),
                            before |-> store, after |-> store'])]
    /\ UNCHANGED workflow

\* one call of update_memory(store, namespace, messages)
call_update_memory(namespace) ==
    /\ Len(mem.calls) < MaxMemoryCalls
    /\ store' = IF update_memory_ok(store, namespace)
                THEN update_memory(store, namespace)
                ELSE store
    /\ mem' = [mem EXCEPT !.calls =
                 Append(@, [op |-> "update_memory", namespace |-> namespace,
                            default_content |-> "",
                            raised |-> ~update_memory_ok(store, namespace),
                            ret |-> Absent,
                            before |-> store, after |-> store'])]
    /\ UNCHANGED workflow

NextMemory ==
    \/ \E namespace \in Namespaces : \E default_content \in Defaults :
           call_get_memory(namespace, default_content)
    \/ \E namespace \in Namespaces : call_update_memory(namespace)

SpecMemory == Init /\ [][NextMemory]_vars

----------------------------------------------------------------------------
(* Two conversations on one store: every store.get and store.put is a step *)

\* the namespace both conversations work on
SharedNamespaces == {TRIAGE}

\* get_memory, "user_preferences = store.get(namespace, 'user_preferences')":
\* a record that exists is returned, otherwise the caller goes on to put
get_memory_read(p, namespace, default_content) ==
    /\ mem.procs[p].at = "idle"
    /\ mem.started < MaxStoreCalls
    /\ mem' = [mem EXCEPT
                 !.started = @ + 1,
                 !.procs[p] =
                     IF store[namespace].exists
                     THEN Idle
                     ELSE [at |-> "get_put", namespace |-> namespace,
                           default_content |-> default_content,
                           user_preferences |-> store[namespace]]]
    /\ UNCHANGED <<store, workflow>>

\* get_memory, "store.put(namespace, 'user_preferences', default_content)"
get_memory_put(p) ==
    /\ mem.procs[p].at = "get_put"
    /\ store' = [store EXCEPT ![mem.procs[p].namespace] =
                    Record(mem.procs[p].default_content, 0)]
    /\ mem' = [mem EXCEPT !.procs[p] = Idle]
    /\ UNCHANGED workflow

\* update_memory, "user_preferences = store.get(...)" and the generator call
\* on user_preferences.value, which raises when there is no record
update_memory_read(p, namespace) ==
    /\ mem.procs[p].at = "idle"
    /\ mem.started < MaxStoreCalls
    /\ mem' = [mem EXCEPT
                 !.started = @ + 1,
                 !.procs[p] =
                     IF store[namespace].exists
                     THEN [at |-> "update_put", namespace |-> namespace,
                           default_content |-> "",
                           user_preferences |-> store[namespace]]
                     ELSE Idle]
    /\ UNCHANGED <<store, workflow>>

\* update_memory, "store.put(namespace, 'user_preferences', result...)": the
\* revised profile is a revision of the record that was read
update_memory_put(p) ==
    /\ mem.procs[p].at = "update_put"
    /\ store' = [store EXCEPT ![mem.procs[p].namespace] =
                    Record(mem.procs[p].user_preferences.base,
                           mem.procs[p].user_preferences.rev + 1)]
    /\ mem' = [mem EXCEPT !.procs[p] = Idle]
    /\ UNCHANGED workflow

NextConcurrent ==
    \/ \E p \in Conversations : \E namespace \in SharedNamespaces :
           \E default_content \in Defaults :
               get_memory_read(p, namespace, default_content)
    \/ \E p \in Conversations : get_memory_put(p)
    \/ \E p \in Conversations : \E namespace \in SharedNamespaces :
           update_memory_read(p, namespace)
    \/ \E p \in Conversations : update_memory_put(p)

SpecConcurrent == Init /\ [][NextConcurrent]_vars


----------------------------------------------------------------------------
(* Properties *)

\* the tools the reviewer has to approve
HumanReviewedTools == {"send_email_tool", "Question", "clarification_tool"}

\* the tool invocation requests recorded in a list of turns
RecordedRequests(msgs) ==
    {<<i, j>> \in (1..Len(msgs)) \X (1..MaxParallelCalls) :
        j <= Len(msgs[i].tool_calls)}

\* the turns the generator call that has just returned was given
SeenByLastCall == SubSeq(messages, 1, Len(messages) - 1)

\* C1: a human-reviewed tool is executed only on a reviewer decision that was
\* delivered for the suspension raised for that same invocation, the decision
\* being accept, or edit for send_email_tool; so no email is sent before a
\* decision for that invocation has arrived.
C1_ReviewedToolRunsOnlyOnDecision ==
    \A i \in 1..Len(execLog) :
        LET e == execLog[i] IN
        e.name \in HumanReviewedTools =>
            /\ e.cause \in {"accept", "edit"}
            /\ e.cause = "edit" => e.name = "send_email_tool"
            /\ e.forId = e.id
            /\ \E k \in 1..Len(decisionLog) :
                   /\ decisionLog[k].gate = "dispatch"
                   /\ decisionLog[k].forId = e.id
                   /\ decisionLog[k].type = e.cause

\* C1 witness: an email was sent on an accept and another on an edit
C1_Witness ==
    /\ \E i \in 1..Len(execLog) :
           execLog[i].name = "send_email_tool" /\ execLog[i].cause = "accept"
    /\ \E i \in 1..Len(execLog) :
           execLog[i].name = "send_email_tool" /\ execLog[i].cause = "edit"

\* C2: a generator call made with two or more tool invocation requests
\* recorded in messages is bound to send_email_tool alone; with none or one
\* recorded it is bound to the full registered tool set.
C2_BindingFollowsCount ==
    pc = "should_continue" =>
        LET count == Cardinality(RecordedRequests(SeenByLastCall))
            bound == Last(genLog).bound
        IN  /\ count >= 2 => bound = {"send_email_tool"}
            /\ count \in {0, 1} => bound = tools

\* C2 witness: a generator call with two recorded requests, bound to the
\* send tool alone
C2_Witness ==
    /\ pc = "should_continue"
    /\ Cardinality(RecordedRequests(SeenByLastCall)) = 2
    /\ Last(genLog).bound = {"send_email_tool"}

\* C3: one conversation makes at most ceiling + 1 = 3 generator calls, and no
\* generator call follows the one made with the circuit breaker engaged.
C3_AtMostThreeGeneratorCalls ==
    /\ Len(genLog) <= ToolCallLimit + 1
    /\ \A i \in 1..Len(genLog) : genLog[i].count >= ToolCallLimit => i = Len(genLog)


\* C4: classification_decision is written once, by triage_router, with one
\* of respond, notify, ignore, and no later component changes it.
C4_ClassificationWrittenOnce ==
    /\ [](/\ classification_decision \in Labels \cup {Unset}
          /\ classWrites <= 1
          /\ (classification_decision # Unset) <=> (classWrites = 1)
          /\ (pc # "triage_router" /\ classification \in Labels)
                 => classification_decision = classification)
    /\ [][classification_decision' # classification_decision
             => /\ pc = "triage_router"
                /\ classification_decision = Unset
                /\ classification_decision' \in {"respond", "notify", "ignore"}]_vars

\* C4 witness: the conversation went through the triage gate, the loop and a
\* reviewed tool, and the classification is still the one triage wrote
C4_Witness ==
    /\ classification_decision = "notify"
    /\ classWrites = 1
    /\ Len(genLog) >= 2
    /\ Len(decisionLog) >= 2
    /\ pc = "END"

\* C5: a classifier answer other than respond, notify or ignore makes
\* triage_router fail: the run is aborted with classification_decision
\* unset, no turn appended, no next node entered and nothing left to run.
C5_InvalidClassificationAborts ==
    classification \notin Labels \cup {"none"} =>
        /\ pc = "error"
        /\ error = "ValueError: Invalid classification"
        /\ classification_decision = Unset
        /\ messages = <<>>
        /\ pending = NoPending
        /\ genLog = <<>> /\ execLog = <<>> /\ memLog = <<>> /\ markLog = <<>>
        /\ ~ENABLED Next

\* C5 witness: the classifier answered something else and the run aborted
C5_Witness ==
    /\ classification = "other"
    /\ pc = "error"

\* C6: triage_router goes by label: respond appends one user turn and
\* enters the loop; ignore appends nothing and ends the conversation with no
\* generator call, tool invocation or suspension; notify appends nothing and
\* enters the triage gate.
C6_TriageTransitions ==
    /\ [][pc = "triage_router" /\ classification' \in Labels =>
            CASE classification' = "respond" ->
                     /\ pc' = "llm_call"
                     /\ Len(messages') = Len(messages) + 1
                     /\ Last(messages').role = "user"
                     /\ SubSeq(messages', 1, Len(messages)) = messages
              [] classification' = "ignore" ->
                     /\ pc' = "END"
                     /\ messages' = messages
              [] classification' = "notify" ->
                     /\ pc' = "triage_interrupt_handler"
                     /\ messages' = messages]_vars
    /\ [](classification = "ignore" =>
              /\ pc = "END"
              /\ messages = <<>>
              /\ genLog = <<>> /\ execLog = <<>>
              /\ pending = NoPending /\ decisionLog = <<>>
              /\ ~ENABLED Next)

\* C6 witness: an ignored item at END
C6_Witness ==
    /\ classification = "ignore"
    /\ classification_decision = "ignore"
    /\ pc = "END"

\* the first decision went to the triage gate
TriageDecided == decisionLog # <<>> /\ decisionLog[1].gate = "triage"

\* C7: the triage gate suspends with {allow_ignore, allow_respond} true and
\* {allow_edit, allow_accept} false, and resumes on response or ignore only;
\* any other decision is a fatal error that appends no turn, updates no
\* preference namespace and enters no next node.
C7_TriageGateProtocol ==
    /\ [](pending.gate = "triage" =>
              pending.config = [allow_ignore |-> TRUE, allow_respond |-> TRUE,
                                allow_edit |-> FALSE, allow_accept |-> FALSE])
    /\ []((TriageDecided /\ decisionLog[1].type \notin {"response", "ignore"}) =>
              /\ pc \in {"triage_interrupt_handler", "error"}
              /\ pc = "triage_interrupt_handler" => ENABLED triage_interrupt_handler
              /\ pc = "error" => error = "ValueError: Invalid response"
              /\ messages = <<>>
              /\ memLog = <<>>
              /\ store[TRIAGE].rev = 0
              /\ genLog = <<>> /\ execLog = <<>>)
    /\ [][(pc = "triage_interrupt_handler" /\ pc' # pc /\ pc' # "error") =>
              /\ resumes # <<>>
              /\ resumes[1].type \in {"response", "ignore"}]_vars

\* C7 witness: the gate was resumed with accept and the run aborted
C7_Witness ==
    /\ TriageDecided
    /\ decisionLog[1].type = "accept"
    /\ pc = "error"


\* the triage gate was resumed with this decision type
TriageResumedWith(type) == TriageDecided /\ decisionLog[1].type = type

\* C8: an item classified notify whose reviewer resumes the triage gate with
\* ignore reaches END with the triage preference namespace updated exactly
\* once, the generator never called and no tool ever invoked.
C8_NotifyIgnoreEnds ==
    /\ []((classification = "notify" /\ TriageResumedWith("ignore")) =>
              /\ genLog = <<>>
              /\ execLog = <<>>
              /\ pc \in {"triage_interrupt_handler", "END"}
              /\ pc = "triage_interrupt_handler" =>
                     /\ memLog = <<>>
                     /\ ENABLED triage_interrupt_handler
              /\ pc = "END" =>
                     /\ memLog = <<TRIAGE>>
                     /\ store[TRIAGE].rev = 1
                     /\ ~ENABLED Next)
    /\ [][(pc = "triage_interrupt_handler" /\ resumes # <<>>
              /\ resumes[1].type = "ignore") => pc' \in {pc, "END"}]_vars

\* C8 witness: the overruled notify item at END with its one update
C8_Witness ==
    /\ classification = "notify"
    /\ TriageResumedWith("ignore")
    /\ pc = "END"
    /\ memLog = <<TRIAGE>>

\* a user turn that carries the reviewer's feedback, at position i
FeedbackTurnAt(i) ==
    /\ messages[i].role = "user"
    /\ messages[i].payload = decisionLog[1].args
    /\ messages[i].payload # ""

\* C9: on respond(feedback) the triage gate appends a turn carrying the
\* feedback, updates the triage preference namespace and no other before the
\* loop starts, and hands over to the loop, whose first generator call has
\* the feedback turn in its messages.
C9_TriageRespondFeedsLoop ==
    /\ []((TriageResumedWith("response")
              /\ pc \notin {"triage_interrupt_handler", "error"}) =>
              /\ \E i \in 1..Len(messages) : FeedbackTurnAt(i)
              /\ memLog # <<>> /\ memLog[1] = TRIAGE
              /\ genLog = <<>> =>
                     /\ pc = "llm_call"
                     /\ memLog = <<TRIAGE>>
                     /\ store[TRIAGE].rev = 1
                     /\ ~store[RESPONSE].exists
                     /\ ~store[BACKGROUND].exists
              /\ genLog # <<>> =>
                     \E i \in 1..genLog[1].seen : FeedbackTurnAt(i))
    /\ [][(pc = "triage_interrupt_handler" /\ resumes # <<>>
              /\ resumes[1].type = "response") => pc' \in {pc, "llm_call"}]_vars

\* C9 witness: the loop's first generator call was made after a respond at
\* the triage gate
C9_Witness ==
    /\ TriageResumedWith("response")
    /\ Len(genLog) = 1
    /\ pc = "should_continue"

\* the newest turn requests this tool (its first request is what Route reads)
NewestRequests(name) ==
    /\ Last(messages).tool_calls # <<>>
    /\ Last(messages).tool_calls[1].name = name

\* Route's choice for the newest turn, with `completion` as the tool that
\* ends the loop
RouteEndsOn(completion) ==
    LET terminal == Last(messages).tool_calls = <<>> \/ NewestRequests(completion)
    IN  /\ pc = "mark_as_read_node" => terminal
        /\ pc = "interrupt_handler" => ~terminal

\* C10 as stated, the completion tool being the finalize tool the circuit
\* breaker leaves to the generator (send_email_tool): Route goes to Terminal
\* exactly when the newest turn carries no tool request or requests it.
C10_RouteEndsOnFinalizeTool == RouteEndsOn(FinalizeTool)

\* C10 amended: Route goes to Terminal exactly when the newest turn carries
\* no tool request or its first request is Done, and to Dispatch in every
\* other case, a request for send_email_tool included.
C10_RouteEndsOnDone ==
    /\ RouteEndsOn("Done")
    /\ pc = "should_continue" => ENABLED Route

\* C10 witness: Route sent a send_email_tool request to Dispatch
C10_Witness ==
    /\ pc = "interrupt_handler"
    /\ NewestRequests("send_email_tool")
    /\ pending = NoPending
    /\ resumes = <<>>


----------------------------------------------------------------------------
(* Properties of the dispatch gate, stated on the steps of interrupt_handler *)

\* the pending invocations of the newest turn
Turn == IF messages = <<>> THEN <<>> ELSE Last(messages).tool_calls

\* a step that executes the body of interrupt_handler
DispatchStep ==
    /\ pc = "interrupt_handler"
    /\ pending = NoPending
    /\ vars' # vars

\* the execution ran to its return and its update was applied
DispatchReturns == DispatchStep /\ pc' \in {"llm_call", "END"}

\* the turns the step added at the end of messages
NewTurns == SubSeq(messages', Len(messages) + 1, Len(messages'))

\* the tool executions the step made
NewExecs == SubSeq(execLog', Len(execLog) + 1, Len(execLog'))

\* the update_memory calls the step made
NewMems == SubSeq(memLog', Len(memLog) + 1, Len(memLog'))

\* the number of the interrupt() that the j-th invocation of the turn raises
InterruptOf(j) ==
    Cardinality({k \in 1..j : Turn[k].name \in HumanReviewedTools})

\* the j-th invocation of the turn was decided with this type in the step
DecidedWith(j, type) ==
    /\ Turn[j].name \in HumanReviewedTools
    /\ InterruptOf(j) <= Len(resumes)
    /\ resumes[InterruptOf(j)].type = type

\* the tool-result turns among `turns` that answer the request `id`
ResultsFor(turns, id) ==
    {i \in 1..Len(turns) : turns[i].role = "tool" /\ turns[i].tool_call_id = id}

\* the executions among `execs` of the request `id`
ExecsOf(execs, id) == {i \in 1..Len(execs) : execs[i].id = id}

\* C11: a pending invocation of a tool outside the reviewed list is executed
\* at once with no suspension, exactly one tool-result turn is appended for
\* it, and the loop continues at Call.
C11_UnreviewedToolRunsAtOnce ==
    [][\A j \in 1..Len(Turn) :
          (DispatchStep /\ Turn[j].name \notin HumanReviewedTools) =>
              /\ pending' = NoPending
              /\ resumes = <<>>
              /\ \E i \in ExecsOf(NewExecs, Turn[j].id) :
                     /\ NewExecs[i].name = Turn[j].name
                     /\ NewExecs[i].args = Turn[j].args
                     /\ NewExecs[i].cause = "auto"
              /\ Cardinality(ExecsOf(NewExecs, Turn[j].id)) = 1
              /\ Cardinality(ResultsFor(NewTurns, Turn[j].id)) = 1
              /\ SubSeq(messages', 1, Len(messages)) = messages
              /\ pc' = "llm_call"]_vars

\* C11 witness: a lookup has just run without review and the loop is at Call
C11_Witness ==
    /\ pc = "llm_call"
    /\ execLog # <<>>
    /\ Last(execLog).cause = "auto"
    /\ Last(messages).role = "tool"
    /\ Last(messages).tool_call_id = Last(execLog).id
    /\ decisionLog = <<>>

\* the requests of a turn as (correlation id, tool name) pairs
IdsAndNames(calls) == {<<calls[j].id, calls[j].name>> : j \in 1..Len(calls)}

\* C12: every tool-result turn the dispatch gate appends carries the
\* correlation id (and the name) of the request of the newest turn that
\* produced it, in every branch; an edit changes the arguments of the edited
\* request only, and leaves its correlation id and tool name as they were.
C12_CorrelationIdsKept ==
    [][DispatchReturns =>
          LET k == Len(messages) IN
          /\ \A i \in 1..Len(NewTurns) :
                 NewTurns[i].role = "tool" =>
                     <<NewTurns[i].tool_call_id, NewTurns[i].name>>
                         \in IdsAndNames(Turn)
          /\ \A j \in 1..Len(Turn) :
                 (Turn[j].name \notin HumanReviewedTools
                    \/ \E t \in {"accept", "edit", "ignore", "response"} :
                           DecidedWith(j, t))
                     => Cardinality(ResultsFor(NewTurns, Turn[j].id)) = 1
          /\ Len(messages'[k].tool_calls) = Len(Turn)
          /\ IdsAndNames(messages'[k].tool_calls) = IdsAndNames(Turn)
          /\ \A j \in 1..Len(Turn) : \A m \in 1..Len(Turn) :
                 (messages'[k].tool_calls[m].id = Turn[j].id
                    /\ messages'[k].tool_calls[m].args # Turn[j].args)
                     => DecidedWith(j, "edit")]_vars

\* C12 witness: an edited send request was executed and answered, and the
\* request in messages has the edited arguments under its old id
C12_Witness ==
    /\ pc = "llm_call"
    /\ Len(messages) >= 2
    /\ execLog # <<>>
    /\ Last(messages).role = "tool"
    /\ Last(execLog).cause = "edit"
    /\ Last(messages).tool_call_id = Last(execLog).id
    /\ \E m \in 1..Len(messages[Len(messages) - 1].tool_calls) :
           /\ messages[Len(messages) - 1].tool_calls[m].id = Last(execLog).id
           /\ messages[Len(messages) - 1].tool_calls[m].args = "edited"

\* every decision the step handled has this type
AllDecided(type) ==
    /\ resumes # <<>>
    /\ \A k \in 1..Len(resumes) : resumes[k].type = type

\* C13: on accept the tool is executed with the arguments the generator
\* requested, one tool-result turn is appended for it, the loop continues at
\* Call, and accept modifies no preference namespace.
C13_AcceptExecutesAsRequested ==
    [][DispatchStep =>
          /\ \A j \in 1..Len(Turn) :
                 DecidedWith(j, "accept") =>
                     /\ ExecsOf(NewExecs, Turn[j].id) # {}
                     /\ \A i \in ExecsOf(NewExecs, Turn[j].id) :
                            /\ NewExecs[i].name = Turn[j].name
                            /\ NewExecs[i].cause = "accept"
                            /\ NewExecs[i].args = Turn[j].args
                            /\ NewExecs[i].args
                                   = Last(genLog).calls[j].args
                     /\ DispatchReturns =>
                            /\ Cardinality(ResultsFor(NewTurns, Turn[j].id)) = 1
                            /\ pc' = "llm_call"
          /\ AllDecided("accept") =>
                 /\ pc' \in {"llm_call", "interrupt_handler"}
                 /\ SubSeq(messages', 1, Len(messages)) = messages
                 /\ store' = store
                 /\ NewMems = <<>>]_vars



\* the arguments the reviewer supplied for the j-th request of the turn
DecisionArgs(j) == resumes[InterruptOf(j)].args

\* C14: on edit of a send_email_tool request the tool is executed with the
\* reviewer's arguments and never with the generator's, the request recorded
\* in messages carries the reviewer's arguments afterwards, the response
\* preferences are updated, and the loop continues at Call unless another
\* request of the same turn was ignored.
C14_EditExecutesEditedArguments ==
    [][DispatchReturns =>
          \A j \in 1..Len(Turn) :
              (DecidedWith(j, "edit") /\ Turn[j].name = "send_email_tool") =>
                  /\ ExecsOf(NewExecs, Turn[j].id) # {}
                  /\ \A i \in ExecsOf(NewExecs, Turn[j].id) :
                         /\ NewExecs[i].args = DecisionArgs(j)
                         /\ NewExecs[i].args # Turn[j].args
                  /\ \E m \in 1..Len(messages'[Len(messages)].tool_calls) :
                         /\ messages'[Len(messages)].tool_calls[m].id
                                = Turn[j].id
                         /\ messages'[Len(messages)].tool_calls[m].args
                                = DecisionArgs(j)
                  /\ \E i \in 1..Len(NewMems) : NewMems[i] = RESPONSE
                  /\ store'[RESPONSE].rev > store[RESPONSE].rev
                  /\ (\A k \in 1..Len(resumes) : resumes[k].type # "ignore")
                         => pc' = "llm_call"]_vars


\* the reviewed tools whose edit has no execution branch
EditOnlyRaises == HumanReviewedTools \ {"send_email_tool"}

\* C15: an edit decision for Question or clarification_tool is a fatal
\* error: the run aborts, the tool is not executed, no turn is appended or
\* replaced in messages and no preference namespace is updated.
C15_UnsupportedEditIsFatal ==
    [][(DispatchStep
          /\ \E j \in 1..Len(Turn) :
                 DecidedWith(j, "edit") /\ Turn[j].name \in EditOnlyRaises) =>
          /\ pc' = "error"
          /\ error' = "ValueError: Invalid tool call"
          /\ messages' = messages
          /\ execLog' = execLog
          /\ store' = store
          /\ memLog' = memLog]_vars

\* C15 witness: the run aborted on an edit of a Question request
C15_Witness ==
    /\ pc = "error"
    /\ error = "ValueError: Invalid tool call"
    /\ decisionLog # <<>>
    /\ Last(decisionLog).type = "edit"
    /\ Last(decisionLog).gate = "dispatch"
    /\ Turn # <<>>
    /\ Turn[1].name = "Question"
    /\ Turn[1].id = Last(decisionLog).forId
    /\ Turn[1].args = "draft"


\* C16: on ignore at the dispatch gate the declined tool is not executed, a
\* tool-result turn stating the decline is appended, and the conversation
\* goes straight to END: the step that handles the ignore raises no further
\* suspension and executes no request that follows the ignored one.
C16_IgnoreEndsConversation ==
    [][DispatchStep =>
          \A j \in 1..Len(Turn) :
              DecidedWith(j, "ignore") =>
                  /\ pc' = "END"
                  /\ pending' = NoPending
                  /\ ExecsOf(NewExecs, Turn[j].id) = {}
                  /\ \E i \in ResultsFor(NewTurns, Turn[j].id) :
                         NewTurns[i].content = "User ignored"
                  /\ \A m \in (j + 1)..Len(Turn) :
                         ExecsOf(NewExecs, Turn[m].id) = {}]_vars


\* C17: on respond(feedback) at the dispatch gate the tool is not executed,
\* a tool-result turn carrying the feedback is appended, and the loop
\* continues at Call for all three reviewed tools; for clarification_tool a
\* user turn embedding the clarification follows that tool-result turn.
C17_RespondFeedsBack ==
    [][DispatchStep =>
          \A j \in 1..Len(Turn) :
              DecidedWith(j, "response") =>
                  /\ ExecsOf(NewExecs, Turn[j].id) = {}
                  /\ DispatchReturns =>
                         /\ Cardinality(ResultsFor(NewTurns, Turn[j].id)) = 1
                         /\ \A i \in ResultsFor(NewTurns, Turn[j].id) :
                                /\ NewTurns[i].content = "User feedback"
                                /\ NewTurns[i].payload = DecisionArgs(j)
                                /\ Turn[j].name = "clarification_tool" =>
                                       /\ i < Len(NewTurns)
                                       /\ NewTurns[i + 1].role = "user"
                                       /\ NewTurns[i + 1].payload
                                              = DecisionArgs(j)
                                /\ Turn[j].name # "clarification_tool" =>
                                       (i < Len(NewTurns)
                                          => NewTurns[i + 1].role # "user")
                         /\ pc' = "llm_call"]_vars


\* the namespace a decision is assigned, as a sequence of at most one name
AssignedNamespace(gate, name, type) ==
    CASE gate = "triage" /\ type \in {"response", "ignore"} -> <<TRIAGE>>
      [] gate = "dispatch" /\ type = "ignore"
           /\ name \in {"send_email_tool", "Question"} -> <<TRIAGE>>
      [] gate = "dispatch" /\ type \in {"edit", "response"}
           /\ name = "send_email_tool" -> <<RESPONSE>>
      [] OTHER -> <<>>

\* the namespaces assigned to the decisions on the first j requests of the turn
RECURSIVE AssignedUpTo(_)
AssignedUpTo(j) ==
    IF j = 0 THEN <<>>
    ELSE AssignedUpTo(j - 1)
         \o (IF Turn[j].name \in HumanReviewedTools
                   /\ InterruptOf(j) <= Len(resumes)
             THEN AssignedNamespace("dispatch", Turn[j].name,
                                    resumes[InterruptOf(j)].type)
             ELSE <<>>)

\* a step that executes the body of triage_interrupt_handler on a decision
TriageDecisionStep ==
    /\ pc = "triage_interrupt_handler"
    /\ pending = NoPending
    /\ resumes # <<>>
    /\ vars' # vars

\* the namespaces whose record the step changed
ChangedNamespaces == {ns \in Namespaces : store'[ns] # store[ns]}

\* the elements of a sequence
Range(seq) == {seq[i] : i \in 1..Len(seq)}

\* C18: each reviewer decision updates exactly the preference namespace
\* assigned to it and no other: triage preferences on triage-gate respond or
\* ignore and on dispatch-gate ignore of send_email_tool or Question,
\* response preferences on edit of and respond to send_email_tool, nothing
\* on ignore of clarification_tool or respond to Question or
\* clarification_tool; background is never updated after seeding.
C18_DecisionUpdatesItsNamespace ==
    /\ [][DispatchStep =>
             /\ NewMems = AssignedUpTo(Len(Turn))
             /\ ChangedNamespaces = Range(NewMems)]_vars
    /\ [][TriageDecisionStep =>
             /\ NewMems = AssignedNamespace("triage", "", resumes[1].type)
             /\ ChangedNamespaces = Range(NewMems)]_vars
    /\ [][(Len(memLog') > Len(memLog)) =>
             (DispatchStep \/ TriageDecisionStep)]_vars
    /\ [][store[BACKGROUND].exists =>
             store'[BACKGROUND] = store[BACKGROUND]]_vars
    /\ [](BACKGROUND \notin Range(memLog) /\ store[BACKGROUND].rev = 0)

\* C18 witness: a Question was ignored at the dispatch gate and only the
\* triage preferences were revised
C18_Witness ==
    /\ pc = "END"
    /\ decisionLog # <<>>
    /\ Last(decisionLog).gate = "dispatch"
    /\ Last(decisionLog).type = "ignore"
    /\ Last(messages).name = "Question"
    /\ memLog = <<TRIAGE>>
    /\ store[TRIAGE].rev = 1
    /\ store[RESPONSE].rev = 0
    /\ store[BACKGROUND].exists


----------------------------------------------------------------------------
(* Properties of get_memory and update_memory *)

\* the calls made so far, in order
Calls == mem.calls

\* no update_memory on the namespace lies strictly between calls i and k
NoUpdateBetween(i, k, namespace) ==
    \A m \in (i + 1)..(k - 1) :
        ~(Calls[m].op = "update_memory" /\ Calls[m].namespace = namespace)

\* C19: get_memory on a namespace with no record returns the supplied
\* default and stores it; a later get_memory on that namespace with no
\* update_memory in between returns that same value whatever default it is
\* passed, and does not write to the store.
C19_SeedingIsIdempotent ==
    \A i \in 1..Len(Calls) :
        (Calls[i].op = "get_memory"
           /\ ~Calls[i].before[Calls[i].namespace].exists) =>
            /\ Calls[i].ret.exists
            /\ Calls[i].ret.base = Calls[i].default_content
            /\ Calls[i].after[Calls[i].namespace] = Calls[i].ret
            /\ \A n \in Namespaces \ {Calls[i].namespace} :
                   Calls[i].after[n] = Calls[i].before[n]
            /\ \A k \in (i + 1)..Len(Calls) :
                   (Calls[k].op = "get_memory"
                      /\ Calls[k].namespace = Calls[i].namespace
                      /\ NoUpdateBetween(i, k, Calls[i].namespace)) =>
                       /\ Calls[k].ret = Calls[i].ret
                       /\ Calls[k].after = Calls[k].before

\* C19 witness: a namespace was seeded with one default and read again with
\* the other
C19_Witness ==
    /\ Len(Calls) >= 2
    /\ Calls[1].op = "get_memory"
    /\ Calls[2].op = "get_memory"
    /\ Calls[1].namespace = Calls[2].namespace
    /\ Calls[1].default_content = "default_one"
    /\ Calls[2].default_content = "default_two"
    /\ Calls[2].ret.base = "default_one"
    /\ store[Calls[1].namespace].base = "default_one"

\* C20: the seed-if-absent of get_memory is atomic with respect to the other
\* conversation on the store: under any interleaving of the store reads and
\* writes of get_memory and update_memory on one namespace, a value written
\* by update_memory is never replaced by a default.
C20_SeedingIsAtomic ==
    [][\A namespace \in Namespaces :
          store[namespace].rev > 0 =>
              /\ store'[namespace].rev > 0
              /\ \A p \in Conversations :
                     ~(mem.procs[p].at = "get_put"
                         /\ mem.procs[p].namespace = namespace
                         /\ mem'.procs[p].at = "idle")]_vars

\* the calls among the first i that revised the record of the namespace
UpdatesUpTo(i, namespace) ==
    {m \in 1..i : /\ Calls[m].op = "update_memory"
                  /\ Calls[m].namespace = namespace
                  /\ ~Calls[m].raised}

\* C21: update_memory replaces the record of its namespace with a revision
\* of the value that was stored when the update began and leaves every other
\* namespace as it was; with one caller at a time consecutive updates chain,
\* so the stored revision counts every update made and none is lost.
C21_UpdateRevisesStoredValue ==
    /\ \A i \in 1..Len(Calls) :
           (Calls[i].op = "update_memory"
              /\ Calls[i].before[Calls[i].namespace].exists) =>
               /\ ~Calls[i].raised
               /\ Calls[i].after[Calls[i].namespace] =
                      [exists |-> TRUE,
                       base |-> Calls[i].before[Calls[i].namespace].base,
                       rev |-> Calls[i].before[Calls[i].namespace].rev + 1]
               /\ \A n \in Namespaces \ {Calls[i].namespace} :
                      Calls[i].after[n] = Calls[i].before[n]
    /\ \A i \in 1..Len(Calls) : \A n \in Namespaces :
           Calls[i].after[n].rev = Cardinality(UpdatesUpTo(i, n))
    /\ \A i \in 2..Len(Calls) : Calls[i].before = Calls[i - 1].after
    /\ Calls # <<>> => store = Calls[Len(Calls)].after

\* C21 witness: a seeded namespace was updated twice in a row and holds the
\* second revision
C21_Witness ==
    /\ Len(Calls) = 3
    /\ Calls[1].op = "get_memory"
    /\ Calls[2].op = "update_memory"
    /\ Calls[3].op = "update_memory"
    /\ Calls[1].namespace = RESPONSE
    /\ Calls[2].namespace = RESPONSE
    /\ Calls[3].namespace = RESPONSE
    /\ store[RESPONSE].rev = 2
    /\ store[RESPONSE].base = Calls[1].default_content
    /\ ~store[TRIAGE].exists


----------------------------------------------------------------------------
(* Properties of mark_as_read_node *)

\* the reserved prefixes of synthetic ids
ReservedPrefixes == {"test-", "langsmith-", "mock-", "debug-"}

\* the id starts with one of the reserved prefixes
StartsWithReserved(id) == id # <<>> /\ id[1] \in ReservedPrefixes

\* the node made the call mark_as_read(email_id)
CallMade(entry) == entry.marked /\ entry.outcome \in {"done", "raised"}

\* C22 as stated: mark_as_read_node skips the side effect when the id starts
\* with test-, langsmith-, mock- or debug- and performs it for every other
\* id.
C22_MarkedUnlessReservedPrefix ==
    \A i \in 1..Len(markLog) :
        CallMade(markLog[i]) <=> ~StartsWithReserved(markLog[i].id)

\* C22 amended: mark_as_read_node skips the side effect when the id is empty
\* or starts with test-, langsmith-, mock- or debug- and performs it for
\* every other id.
C22_MarkedUnlessEmptyOrReserved ==
    \A i \in 1..Len(markLog) :
        /\ CallMade(markLog[i]) <=>
               (markLog[i].id # <<>> /\ ~StartsWithReserved(markLog[i].id))
        /\ ~CallMade(markLog[i]) => markLog[i].outcome = "skipped"
        /\ markLog[i].id = email_id

\* C22 witness: the node ran on a langsmith- id and skipped the call
C22_Witness ==
    /\ pc = "END"
    /\ email_id = <<"langsmith-", "1">>
    /\ Len(markLog) = 1
    /\ markLog[1].id = email_id
    /\ ~markLog[1].marked
    /\ markLog[1].outcome = "skipped"

\* C23: a failure of mark_as_read inside mark_as_read_node is caught: the
\* run is not aborted, the conversation reaches END, and messages and
\* classification_decision are as they were before the node.
C23_MarkFailureIsNotFatal ==
    [][(pc = "mark_as_read_node" /\ Len(markLog') > Len(markLog)
          /\ markLog'[Len(markLog')].outcome = "raised") =>
          /\ pc' = "END"
          /\ error' = "none"
          /\ messages' = messages
          /\ classification_decision' = classification_decision
          /\ store' = store]_vars

\* C23 witness: mark_as_read raised for a Gmail id and the conversation is
\* at END without an error
C23_Witness ==
    /\ pc = "END"
    /\ error = "none"
    /\ Len(markLog) = 1
    /\ markLog[1].outcome = "raised"
    /\ markLog[1].id = <<"198d7", "8298b0ec161">>
    /\ classification_decision = "respond"


----------------------------------------------------------------------------
(* Error handling of the dispatch gate *)

\* the decision types interrupt_handler has a branch for
KnownDecisionTypes == {"accept", "edit", "response", "ignore"}

\* C24: at the dispatch gate a resume value whose type is none of accept,
\* edit, response, ignore is a fatal error: the run aborts, the pending tool
\* is not executed, no turn is appended and the loop does not continue at
\* Call.
C24_UnknownDecisionIsFatal ==
    [][DispatchStep =>
          \A j \in 1..Len(Turn) :
              (/\ Turn[j].name \in HumanReviewedTools
               /\ InterruptOf(j) <= Len(resumes)
               /\ resumes[InterruptOf(j)].type \notin KnownDecisionTypes) =>
                  /\ pc' = "error"
                  /\ pc' # "llm_call"
                  /\ ExecsOf(NewExecs, Turn[j].id) = {}
                  /\ messages' = messages]_vars


\* the tools of the registry
RegisteredTools == {"send_email_tool", "Question", "Done",
                    "search_kamerleden", "get_kamerstukken",
                    "search_vergaderingen", "get_stemmingen",
                    "search_commissies", "clarification_tool"}

\* the loop of the step gets as far as the j-th request of the turn
Reaches(j) ==
    /\ InterruptOf(j) <= Len(resumes)
    /\ \A k \in 1..(j - 1) : Turn[k].name \in RegisteredTools

\* C25: a pending request whose tool name is not in the registry is a fatal
\* error at the dispatch gate: no suspension is raised for it, no tool is
\* executed for it and no tool-result turn is appended for it.
C25_UnknownToolIsFatal ==
    [][DispatchStep =>
          \A j \in 1..Len(Turn) :
              Turn[j].name \notin RegisteredTools =>
                  /\ pending'.id # Turn[j].id
                  /\ ExecsOf(NewExecs, Turn[j].id) = {}
                  /\ ResultsFor(messages', Turn[j].id) = {}
                  /\ pc' # "llm_call"
                  /\ Reaches(j) =>
                         /\ pc' = "error"
                         /\ error' = "KeyError"
                         /\ messages' = messages]_vars

\* C25 witness: the run aborted on a request for a tool that is not registered
C25_Witness ==
    /\ pc = "error"
    /\ error = "KeyError"
    /\ Turn # <<>>
    /\ Turn[Len(Turn)].name = "unknown_tool"
    /\ pending = NoPending
    /\ \A i \in 1..Len(execLog) : execLog[i].name # "unknown_tool"

\* C26: when the execution of a tool fails during dispatch the conversation
\* does not abort: a tool-result turn with the error text and the id of the
\* request is appended and the loop continues at Call.
C26_ToolErrorIsRecoverable ==
    [][DispatchStep =>
          \A i \in 1..Len(NewExecs) :
              NewExecs[i].outcome \in {"error_text", "raised"} =>
                  /\ pc' # "error"
                  /\ DispatchReturns =>
                         \E m \in ResultsFor(NewTurns, NewExecs[i].id) :
                             NewTurns[m].role = "tool"
                  /\ Len(Turn) = 1 => pc' = "llm_call"]_vars


----------------------------------------------------------------------------
(* Properties of messages *)

\* C27 as stated: messages is append-only: across every step the turns
\* before the step are a prefix of the turns after it; no turn is removed,
\* reordered or replaced, the edit branch of the dispatch gate included.
C27_MessagesAppendOnly ==
    [][/\ Len(messages') >= Len(messages)
       /\ SubSeq(messages', 1, Len(messages)) = messages]_vars

\* the step handled an edit of a send_email_tool request and returned
EditApplied ==
    /\ DispatchReturns
    /\ \E j \in 1..Len(Turn) :
           DecidedWith(j, "edit") /\ Turn[j].name = "send_email_tool"

\* the turn differs from the old one in the arguments of its requests only
SameTurnOtherArguments(old, new) ==
    /\ [new EXCEPT !.tool_calls = old.tool_calls] = old
    /\ Len(new.tool_calls) = Len(old.tool_calls)
    /\ IdsAndNames(new.tool_calls) = IdsAndNames(old.tool_calls)

\* C27 amended: no turn of messages is removed or reordered and turns are
\* only added at the end; the one change to an existing turn is made by the
\* edit branch of the dispatch gate, which replaces the newest assistant
\* turn by a copy with the same message id, at the same position, that
\* differs in the arguments of its requests, and adds no assistant turn.
C27_TurnsKeptInPlace ==
    [][/\ Len(messages') >= Len(messages)
       /\ \A i \in 1..Len(messages) :
              \/ messages'[i] = messages[i]
              \/ /\ EditApplied
                 /\ i = Len(messages)
                 /\ SameTurnOtherArguments(messages[i], messages'[i])
       /\ EditApplied =>
              /\ messages'[Len(messages)] # messages[Len(messages)]
              /\ \A i \in 1..Len(NewTurns) : NewTurns[i].role = "tool"]_vars

\* C27 witness: the assistant turn of a generator call is in messages with
\* other requests than the generator wrote, and turns follow it
C27_Witness ==
    \E i \in 1..Len(messages) :
        /\ messages[i].role = "ai"
        /\ i < Len(messages)
        /\ messages[i].id \in 1..Len(genLog)
        /\ messages[i].tool_calls # genLog[messages[i].id].calls
        /\ decisionLog # <<>>
        /\ Last(decisionLog).type = "edit"


----------------------------------------------------------------------------
(* Properties of the generator calls *)

\* C28: every assistant turn a generator call produces carries at most one
\* tool request, under the full binding and under the binding restricted to
\* send_email_tool.
C28_AtMostOneRequestPerTurn ==
    \A n \in 1..Len(genLog) :
        /\ Len(genLog[n].calls) <= 1
        /\ \A i \in 1..Len(messages) :
               messages[i].role = "ai" => Len(messages[i].tool_calls) <= 1


\* the requests the generator calls made for tools other than send_email_tool
OtherToolRequests ==
    {<<n, j>> \in (1..Len(genLog)) \X (1..MaxParallelCalls) :
        /\ j <= Len(genLog[n].calls)
        /\ genLog[n].calls[j].name # "send_email_tool"}

\* the executions of tools other than send_email_tool
OtherToolExecs == {i \in 1..Len(execLog) : execLog[i].name # "send_email_tool"}

\* the executions made without a reviewer decision
UnreviewedExecs == {i \in 1..Len(execLog) : execLog[i].cause = "auto"}

\* C29: in a conversation at most 2 invocations of tools other than
\* send_email_tool are requested and executed: after two generator calls
\* that each requested an unreviewed tool, the third and every later call
\* offers send_email_tool only, so at most 2 executions happen without
\* human review.
C29_AtMostTwoOtherTools ==
    /\ Cardinality(OtherToolRequests) <= 2
    /\ Cardinality(OtherToolExecs) <= 2
    /\ Cardinality(UnreviewedExecs) <= 2
    /\ \A n \in 3..Len(genLog) :
           (\A k \in 1..2 :
                /\ genLog[k].calls # <<>>
                /\ genLog[k].calls[1].name \notin HumanReviewedTools) =>
               /\ genLog[n].bound = {"send_email_tool"}
               /\ \A j \in 1..Len(genLog[n].calls) :
                      genLog[n].calls[j].name = "send_email_tool"

\* C29 witness: two lookups ran without review and the third generator call
\* was offered send_email_tool only
C29_Witness ==
    /\ Len(genLog) >= 3
    /\ Cardinality(UnreviewedExecs) = 2
    /\ genLog[1].calls[1].name = "search_kamerleden"
    /\ genLog[2].calls[1].name = "search_kamerleden"
    /\ genLog[3].bound = {"send_email_tool"}
    /\ genLog[3].calls # <<>>


----------------------------------------------------------------------------
(* The accepted send and the terminal node *)

\* the executions of send_email_tool the reviewer accepted
AcceptedSends ==
    {i \in 1..Len(execLog) : /\ execLog[i].name = "send_email_tool"
                             /\ execLog[i].cause = "accept"}

\* the newest generator call ended the loop: plain text, or Done first
LoopEndedByGenerator ==
    /\ genLog # <<>>
    /\ \/ Last(genLog).calls = <<>>
       \/ Last(genLog).calls[1].name = "Done"

----------------------------------------------------------------------------
(* The step limit *)

\* no reviewer decision was delivered yet: the run started on the new item
FirstRun == decisionLog = <<>>

\* the run has neither ended nor been suspended
Running == pc \notin {"END", "error"} /\ pending = NoPending

\* C31: with the recursion limit at 10 graph steps a run never fails by
\* exhausting the limit; the run started on a new item, whatever the generator
\* answers, is at END or at a human-review suspension within 10 steps, and for
\* a classified item its status is not error.
C31_StepLimitNeverExhausted ==
    /\ error # "GraphRecursionError"
    /\ steps <= 10
    /\ (FirstRun /\ Running) => steps < 10
    /\ (FirstRun /\ classification \in Labels) => pc # "error"

\* C31 witness: the run on a new item took two lookups, was restricted to the
\* send tool and is suspended at the dispatch gate after eight steps
C31_Witness ==
    /\ FirstRun
    /\ pending.gate = "dispatch"
    /\ Len(genLog) = 3
    /\ Len(execLog) = 2
    /\ steps = 8


----------------------------------------------------------------------------
(* Suspensions *)

\* the gate a suspension belongs to
GateOf(node) ==
    IF node = "triage_interrupt_handler" THEN "triage" ELSE "dispatch"

\* C32: a suspended conversation waits at its gate; the only thing that
\* happens to it is the delivery of one decision for that suspension, which
\* appends no turn, executes no tool and writes no preference namespace and
\* closes the suspension; decisions are delivered to suspensions only, and
\* without one the conversation stays where it is, short of END.
C32_SuspensionWaitsForOneDecision ==
    /\ [](pending # NoPending =>
             /\ pc \in {"triage_interrupt_handler", "interrupt_handler"}
             /\ pending.gate = GateOf(pc)
             /\ error = "none")
    /\ [][pending # NoPending =>
             /\ UNCHANGED <<pc, messages, store, execLog, memLog, genLog,
                            markLog, error, classification_decision>>
             /\ Len(decisionLog') = Len(decisionLog) + 1
             /\ SubSeq(decisionLog', 1, Len(decisionLog)) = decisionLog
             /\ Last(decisionLog').gate = pending.gate
             /\ Last(decisionLog').forId = pending.id
             /\ resumes' = Append(resumes, Last(decisionLog'))
             /\ pending' = NoPending]_vars
    /\ [][decisionLog' # decisionLog => pending # NoPending]_vars

\* C32 witness: the second suspension of one assistant turn got its decision;
\* the request decided first was executed before that suspension was raised
C32_Witness ==
    /\ pc = "interrupt_handler"
    /\ pending = NoPending
    /\ Len(resumes) = 2
    /\ Len(decisionLog) = 2
    /\ decisionLog[1].forId # decisionLog[2].forId
    /\ Len(execLog) = 3
    /\ execLog[3].cause = "accept"


----------------------------------------------------------------------------
(* The store across conversations *)

\* the items after the first that the ingestion process has started
LaterItems ==
    {i \in 2..Len(mem.calls) : mem.calls[i].op \in Ingestions}

\* C33: the preference store outlives a conversation: the next item of the
\* same ingestion process is given the records the item before left, and the
\* get_memory of its triage_router returns the stored record and does not
\* seed the default again.
C33_StoreOutlivesConversation ==
    /\ \A i \in LaterItems :
           \A n \in Namespaces :
               mem.calls[i].before[n].exists =>
                   mem.calls[i].after[n] = mem.calls[i].before[n]
    /\ (/\ LaterItems # {}
        /\ Len(mem.calls) \in LaterItems
        /\ classification # "none"
        /\ memLog = <<>>
        /\ Last(mem.calls).before[TRIAGE].exists)
           => store[TRIAGE] = Last(mem.calls).before[TRIAGE]


----------------------------------------------------------------------------
(* Requests and their results *)

\* the tool-result turns after turn i that answer the request with this id
AnswersTo(msgs, i, id) ==
    {k \in (i + 1)..Len(msgs) :
        msgs[k].role = "tool" /\ msgs[k].tool_call_id = id}

\* C34: at every generator call, each tool invocation request recorded in an
\* assistant turn of the messages the generator is given has exactly one
\* tool-result turn with its correlation id later in messages, whatever the
\* reviewer decided.
C34_EveryRequestAnsweredAtCall ==
    pc = "should_continue" =>
        \A r \in RecordedRequests(SeenByLastCall) :
            Cardinality(AnswersTo(SeenByLastCall, r[1],
                                  SeenByLastCall[r[1]].tool_calls[r[2]].id)) = 1


\* C35: each tool invocation request is executed at most once in a
\* conversation, also when the dispatch gate is suspended and resumed more
\* than once while it handles one assistant turn.
C35_RequestExecutedAtMostOnce ==
    \A i, k \in 1..Len(execLog) :
        execLog[i].id = execLog[k].id => i = k


----------------------------------------------------------------------------
(* The capability matrix *)

\* the j-th invocation of the turn was decided with a type that the matrix of
\* its suspension did not allow
DecidedAgainstMatrix(j) ==
    \E t \in DecisionTypes :
        /\ DecidedWith(j, t)
        /\ ~DecisionAllowed(hitl_config(Turn[j].name), t)

\* a step of the triage gate on a decision its matrix did not allow
TriageStepAgainstMatrix ==
    /\ pc = "triage_interrupt_handler"
    /\ pending = NoPending
    /\ resumes # <<>>
    /\ ~DecisionAllowed(triage_request.config, resumes[1].type)

\* C36: a gate does not act on a decision that the capability matrix of its
\* suspension marked as not allowed: such a decision causes no tool
\* execution, no appended turn and no preference update.
C36_DisallowedDecisionHasNoEffect ==
    /\ [][DispatchStep =>
             \A j \in 1..Len(Turn) :
                 DecidedAgainstMatrix(j) =>
                     /\ ExecsOf(NewExecs, Turn[j].id) = {}
                     /\ ResultsFor(NewTurns, Turn[j].id) = {}
                     /\ Len(Turn) = 1 => (NewMems = <<>> /\ store' = store)]_vars
    /\ [][TriageStepAgainstMatrix =>
             /\ messages' = messages
             /\ execLog' = execLog
             /\ memLog' = memLog
             /\ store' = store]_vars


\* every decision the dispatch gate holds for the turn was allowed by the
\* matrix of the suspension it answers
AllDecisionsAllowed ==
    \A j \in 1..Len(Turn) :
        \A t \in DecisionTypes :
            DecidedWith(j, t) => DecisionAllowed(hitl_config(Turn[j].name), t)

\* a step of the triage gate on a decision its matrix allowed
TriageStepWithinMatrix ==
    /\ pc = "triage_interrupt_handler"
    /\ pending = NoPending
    /\ resumes # <<>>
    /\ DecisionAllowed(triage_request.config, resumes[1].type)

\* C37: a decision of a type that the capability matrix of the suspension
\* allowed is handled without an exception: the gate goes on to the loop, to
\* END, or to the suspension of the next request of the turn.
C37_AllowedDecisionIsHandled ==
    /\ [][(DispatchStep /\ resumes # <<>> /\ AllDecisionsAllowed) =>
             /\ error' = "none"
             /\ \/ pc' \in {"llm_call", "END"}
                \/ pc' = "interrupt_handler" /\ pending' # NoPending]_vars
    /\ [][TriageStepWithinMatrix =>
             /\ error' = "none"
             /\ pc' \in {"llm_call", "END"}]_vars


----------------------------------------------------------------------------
(* update_memory and the record it reads *)

\* C38: update_memory is never invoked on a namespace without a record: every
\* update of the triage or response preferences comes after the get_memory of
\* the same conversation that read or seeded the namespace (triage_router for
\* the triage preferences, llm_call for the response preferences), so it
\* never fails on a missing record.
C38_UpdateFindsRecord ==
    /\ [](error # "AttributeError: no record")
    /\ [][\A i \in 1..Len(NewMems) :
             /\ NewMems[i] \in {TRIAGE, RESPONSE}
             /\ store[NewMems[i]].exists
             /\ NewMems[i] = TRIAGE => classification \in Labels
             /\ NewMems[i] = RESPONSE => genLog # <<>>]_vars

\* C38 witness: both namespaces were updated in one conversation
C38_Witness ==
    /\ error = "none"
    /\ \E i \in 1..Len(memLog) : memLog[i] = TRIAGE
    /\ \E i \in 1..Len(memLog) : memLog[i] = RESPONSE
    /\ store[TRIAGE].rev > 0
    /\ store[RESPONSE].rev > 0


----------------------------------------------------------------------------
(* The terminal node *)

\* the conversation was ended by an ignore: of the classifier, or of the
\* reviewer at the gate that asked last
EndedByIgnore ==
    /\ pc = "END"
    /\ \/ classification = "ignore"
       \/ decisionLog # <<>> /\ Last(decisionLog).type = "ignore"

\* C39: mark_as_read_node is invoked at most once in a conversation, with the
\* id of the conversation's item, and only when should_continue has selected
\* it; a conversation ended by an ignore of the classifier, of the triage gate
\* or of the dispatch gate is at END without mark_as_read_node having run.
C39_MarkedOnlyThroughTerminal ==
    /\ [](/\ Len(markLog) <= 1
          /\ \A i \in 1..Len(markLog) : markLog[i].id = email_id
          /\ markLog # <<>> => (pc = "END" /\ LoopEndedByGenerator)
          /\ EndedByIgnore => markLog = <<>>)
    /\ [][markLog' # markLog =>
             /\ pc = "mark_as_read_node"
             /\ markLog = <<>>
             /\ LoopEndedByGenerator
             /\ Last(messages).role = "ai"]_vars

\* C39 witness: an item classified notify that the reviewer chose to answer
\* went through the loop and was marked once at the terminal node
C39_Witness ==
    /\ pc = "END"
    /\ classification_decision = "notify"
    /\ decisionLog # <<>>
    /\ decisionLog[1].gate = "triage"
    /\ Len(markLog) = 1
    /\ markLog[1].id = email_id
    /\ markLog[1].marked


----------------------------------------------------------------------------
(* The circuit breaker over a conversation *)

\* C40: the count of recorded tool invocation requests never decreases from
\* one generator call to the next: it starts at 0 and grows by the requests of
\* the turn the call before returned, an edit neither adding nor removing
\* one; so once a generator call was restricted to send_email_tool every
\* later call of the conversation is restricted too.
C40_BreakerIsMonotonic ==
    /\ genLog # <<>> => genLog[1].count = 0
    /\ \A i \in 1..(Len(genLog) - 1) :
           genLog[i + 1].count = genLog[i].count + Len(genLog[i].calls)
    /\ \A i, k \in 1..Len(genLog) :
           i < k =>
               /\ genLog[i].count <= genLog[k].count
               /\ genLog[i].bound = {"send_email_tool"} =>
                      genLog[k].bound = {"send_email_tool"}

\* C40 witness: the first request was edited, the third and the fourth
\* generator call were both restricted
C40_Witness ==
    /\ Len(genLog) = 4
    /\ decisionLog # <<>>
    /\ decisionLog[1].type = "edit"
    /\ genLog[2].count = 1
    /\ genLog[3].bound = {"send_email_tool"}
    /\ genLog[4].bound = {"send_email_tool"}


====
